---- MODULE Spec2Model ----
(***************************************************************************)
(* Model of src/src/utils/csvParser.ts: the CSV tokenizer (parseCSV), the  *)
(* field cleaner (cleanField), the e-mail normaliser and the validators,   *)
(* the row validator (validateAndCleanRow), the serializer (arrayToCSV)    *)
(* and the pipeline (validateAndCleanCSV).                                 *)
(*                                                                         *)
(* A JavaScript string is modelled as a sequence of one-character strings, *)
(* a string[] as a sequence of such sequences.  Indices of the code are    *)
(* zero-based and are kept zero-based in the variables; s[k + 1] reads the *)
(* element the code calls s[k].                                            *)
(***************************************************************************)
EXTENDS Integers, Sequences, FiniteSets, TLC

VARIABLES
    entry,              \* the exported function that was called
    pc,                 \* position inside the call
    csvText,            \* parseCSV / validateAndCleanCSV: the input text
    expectedColumns,    \* validateAndCleanCSV: the expected column names
    lines,              \* parseCSV: csvText.split('\n')
    i,                  \* parseCSV: index of the physical line being scanned
    j,                  \* parseCSV: index of the character being scanned
    currentRow,         \* parseCSV: fields closed so far in the open row
    currentField,       \* parseCSV: the field buffer
    inQuotes,           \* parseCSV: the quote state
    rows,               \* parseCSV: rows emitted so far
    emailColumnIndex,   \* validateAndCleanCSV: index of the e-mail column, -1 if none
    phoneColumnIndex,   \* validateAndCleanCSV: index of the phone column, -1 if none
    validRows,          \* validateAndCleanCSV: accepted rows, header first
    invalidRowCount,    \* validateAndCleanCSV: number of rejected rows
    rowIndex,           \* validateAndCleanCSV: index of the data row being processed
    outcome,            \* "none", "result" (a value was returned) or "throw"
    error,              \* the thrown error, a record
    arg,                \* argument of a direct call of a pure function
    res,                \* its result
    res2                \* result of applying cleanField to res

vars == <<entry, pc, csvText, expectedColumns, lines, i, j, currentRow,
          currentField, inQuotes, rows, emailColumnIndex, phoneColumnIndex,
          validRows, invalidRowCount, rowIndex, outcome, error, arg, res, res2>>

parseVars == <<lines, i, j, currentRow, currentField, inQuotes, rows>>
pipeVars == <<emailColumnIndex, phoneColumnIndex, validRows, invalidRowCount, rowIndex>>
callVars == <<arg, res, res2>>

\* undefined, where a string is expected
NULL == <<"<undefined>">>

\* null, where a row (string[]) is expected
NullRow == << <<"<null>">> >>

(***************************************************************************)
(* JavaScript string primitives                                            *)
(***************************************************************************)

\* The white space of String.prototype.trim and of the regex class \s
\* (the members that occur in the inputs of this model).
WhiteSpace == {" ", "\t", "\n", "\r"}

\* Line terminators: the characters the regex '.' does not match.
LineTerminator == {"\n", "\r"}

\* The regex class \d.
Digit == {"0", "1", "2", "3", "4", "5", "6", "7", "8", "9"}

UpperCase == <<"A", "B", "C", "D", "E", "F", "G", "H", "I", "J", "K", "L", "M",
               "N", "O", "P", "Q", "R", "S", "T", "U", "V", "W", "X", "Y", "Z">>
LowerCase == <<"a", "b", "c", "d", "e", "f", "g", "h", "i", "j", "k", "l", "m",
               "n", "o", "p", "q", "r", "s", "t", "u", "v", "w", "x", "y", "z">>

toLowerChar(c) ==
    IF \E k \in 1..Len(UpperCase) : UpperCase[k] = c
    THEN LowerCase[CHOOSE k \in 1..Len(UpperCase) : UpperCase[k] = c]
    ELSE c

\* s.toLowerCase()
toLowerCase(s) == [k \in 1..Len(s) |-> toLowerChar(s[k])]

RECURSIVE trimStart(_)
trimStart(s) ==
    IF s # <<>> /\ Head(s) \in WhiteSpace THEN trimStart(Tail(s)) ELSE s

RECURSIVE trimEnd(_)
trimEnd(s) ==
    IF s # <<>> /\ s[Len(s)] \in WhiteSpace
    THEN trimEnd(SubSeq(s, 1, Len(s) - 1))
    ELSE s

\* s.trim()
trim(s) == trimEnd(trimStart(s))

\* s.startsWith(t)
startsWith(s, t) == Len(s) >= Len(t) /\ SubSeq(s, 1, Len(t)) = t

\* s.endsWith(t)
endsWith(s, t) == Len(s) >= Len(t) /\ SubSeq(s, Len(s) - Len(t) + 1, Len(s)) = t

\* s.includes(t)
includes(s, t) ==
    \E k \in 1..(Len(s) - Len(t) + 1) : SubSeq(s, k, k + Len(t) - 1) = t

\* s.slice(0, -1)
dropLast(s) == SubSeq(s, 1, Len(s) - 1)

\* s.lastIndexOf(c) for a single character c, zero-based, -1 if absent
lastIndexOf(s, c) ==
    IF \E k \in 1..Len(s) : s[k] = c
    THEN (CHOOSE k \in 1..Len(s) : s[k] = c /\ \A m \in (k + 1)..Len(s) : s[m] # c) - 1
    ELSE -1

\* zero-based index of the first c in s, Len(s) if absent
firstIndexOf(s, c) ==
    IF \E k \in 1..Len(s) : s[k] = c
    THEN (CHOOSE k \in 1..Len(s) : s[k] = c /\ \A m \in 1..(k - 1) : s[m] # c) - 1
    ELSE Len(s)

\* s.split(c) for a single character c: always at least one part
RECURSIVE split(_, _)
split(s, c) ==
    LET k == firstIndexOf(s, c) IN
    IF k = Len(s) THEN <<s>>
    ELSE <<SubSeq(s, 1, k)>> \o split(SubSeq(s, k + 2, Len(s)), c)

\* (s.match(/c/g) || []).length
countChar(s, c) == Cardinality({k \in 1..Len(s) : s[k] = c})

RECURSIVE join(_, _)
\* parts.join(sep)
join(parts, sep) ==
    IF parts = <<>> THEN <<>>
    ELSE IF Len(parts) = 1 THEN parts[1]
    ELSE parts[1] \o sep \o join(Tail(parts), sep)

\* s.replace(/"/g, '""')
RECURSIVE doubleQuotes(_)
doubleQuotes(s) ==
    IF s = <<>> THEN <<>>
    ELSE (IF Head(s) = "\"" THEN <<"\"", "\"">> ELSE <<Head(s)>>) \o doubleQuotes(Tail(s))

\* s.replace(/[\s\-\(\)\+\.]/g, '')
PhoneFormatting == WhiteSpace \cup {"-", "(", ")", "+", "."}

RECURSIVE removeAll(_, _)
removeAll(s, set) ==
    IF s = <<>> THEN <<>>
    ELSE (IF Head(s) \in set THEN <<>> ELSE <<Head(s)>>) \o removeAll(Tail(s), set)

(***************************************************************************)
(* cleanField                                                              *)
(***************************************************************************)

cleanField(field) ==
    LET t0 == trim(field)
        trimmedField == IF startsWith(t0, <<",">>) THEN trim(Tail(t0)) ELSE t0
    IN  IF startsWith(trimmedField, <<"\"">>) /\ endsWith(trimmedField, <<"\"">>)
           /\ Len(trimmedField) > 1
        THEN LET unquotedContent == SubSeq(trimmedField, 2, Len(trimmedField) - 1) IN
             IF endsWith(unquotedContent, <<",">>)
             THEN dropLast(unquotedContent)
             ELSE unquotedContent
        ELSE IF endsWith(trimmedField, <<",">>)
             THEN trim(dropLast(trimmedField))
             ELSE trimmedField

(***************************************************************************)
(* autoCorrectEmailDomain                                                  *)
(***************************************************************************)

validTLDs ==
    { <<".", "c", "o">>, <<".", "i", "o">>, <<".", "o", "r", "g">>,
      <<".", "n", "e", "t">>, <<".", "e", "d", "u">>, <<".", "g", "o", "v">>,
      <<".", "m", "i", "l">>, <<".", "i", "n", "t">>, <<".", "u", "k">>,
      <<".", "u", "s">>, <<".", "c", "a">>, <<".", "a", "u">>, <<".", "i", "n">>,
      <<".", "d", "e">>, <<".", "f", "r">>, <<".", "j", "p">>, <<".", "c", "n">> }

DotCom == <<".", "c", "o", "m">>
DotOrg == <<".", "o", "r", "g">>
DotNet == <<".", "n", "e", "t">>

\* the typo table, as a set of <<key, value>> pairs
typoCorrections ==
    { << <<".", "c", "o", "n">>, DotCom >>,
      << <<".", "c", "m", "o">>, DotCom >>,
      << <<".", "c", "o", "m", "n">>, DotCom >>,
      << <<".", "c", "o", "m", "m">>, DotCom >>,
      << <<".", "c", "o", "o", "m">>, DotCom >>,
      << <<".", "c", "o", "m", ",">>, DotCom >>,
      << <<".", "c", "o", "n", ",">>, DotCom >>,
      << <<".", "c", "m", "o", ",">>, DotCom >>,
      << <<".", "o", "r">>, DotOrg >>,
      << <<".", "o", "g", "r">>, DotOrg >>,
      << <<".", "n", "e", "t", ",">>, DotNet >>,
      << <<".", "n", "e">>, DotNet >> }

\* typoCorrections[key], NULL (undefined) when key is no key of the table
typoLookup(key) ==
    IF \E p \in typoCorrections : p[1] = key
    THEN (CHOOSE p \in typoCorrections : p[1] = key)[2]
    ELSE NULL

\* autoCorrectEmailDomain without the second look-up (trailing comma removed)
autoCorrectEmailDomainNoCommaStrip(email) ==
    LET trimmedEmail == trim(email) IN
    IF ~includes(trimmedEmail, <<"@">>) THEN trimmedEmail
    ELSE
    LET parts == split(trimmedEmail, "@")
        localPart == parts[1]
        domain == parts[2]
        lastDotIndex == lastIndexOf(domain, ".")
        tld == SubSeq(domain, lastDotIndex + 1, Len(domain))
        baseDomain == SubSeq(domain, 1, lastDotIndex)
    IN
    IF Len(domain) = 0 \/ lastDotIndex = -1 THEN trimmedEmail
    ELSE IF toLowerCase(tld) \in validTLDs THEN trimmedEmail
    ELSE IF typoLookup(toLowerCase(tld)) # NULL
         THEN localPart \o <<"@">> \o baseDomain \o typoLookup(toLowerCase(tld))
    ELSE trimmedEmail

autoCorrectEmailDomain(email) ==
    LET trimmedEmail == trim(email) IN
    IF ~includes(trimmedEmail, <<"@">>) THEN trimmedEmail
    ELSE
    LET parts == split(trimmedEmail, "@")
        localPart == parts[1]
        domain == parts[2]
    IN
    IF Len(domain) = 0 THEN trimmedEmail
    ELSE
    LET lastDotIndex == lastIndexOf(domain, ".") IN
    IF lastDotIndex = -1 THEN trimmedEmail
    ELSE
    LET tld == SubSeq(domain, lastDotIndex + 1, Len(domain))
        baseDomain == SubSeq(domain, 1, lastDotIndex)
        correctedTLD == typoLookup(toLowerCase(tld))
    IN
    IF toLowerCase(tld) \in validTLDs THEN trimmedEmail
    ELSE IF correctedTLD # NULL THEN localPart \o <<"@">> \o baseDomain \o correctedTLD
    ELSE IF endsWith(tld, <<",">>) /\ typoLookup(toLowerCase(dropLast(tld))) # NULL
         THEN localPart \o <<"@">> \o baseDomain \o typoLookup(toLowerCase(dropLast(tld)))
    ELSE trimmedEmail

(***************************************************************************)
(* Validators                                                              *)
(***************************************************************************)

\* emailRegex with [^@] in place of [^\s@]
emailRegexAllowsSpace(s) ==
    \E a \in 2..Len(s) : \E d \in (a + 2)..(Len(s) - 1) :
        /\ s[a] = "@"
        /\ s[d] = "."
        /\ \A k \in (1..Len(s)) \ {a, d} : s[k] # "@"

\* /^[^\s@]+@[^\s@]+\.[^\s@]+$/.test(s)
emailRegex(s) ==
    \E a \in 2..Len(s) : \E d \in (a + 2)..(Len(s) - 1) :
        /\ s[a] = "@"
        /\ s[d] = "."
        /\ \A k \in (1..Len(s)) \ {a, d} : s[k] \notin WhiteSpace \cup {"@"}

isValidEmail(email) ==
    LET trimmedEmail == trim(email) IN
    IF Len(trimmedEmail) = 0 THEN FALSE
    ELSE IF countChar(trimmedEmail, "@") # 1 THEN FALSE
    ELSE
    LET parts == split(trimmedEmail, "@")
        localPart == parts[1]
        domain == parts[2]
    IN
    IF Len(localPart) = 0 \/ Len(domain) = 0 THEN FALSE
    ELSE IF ~includes(domain, <<".">>) THEN FALSE
    ELSE IF startsWith(domain, <<".">>) \/ endsWith(domain, <<".">>) THEN FALSE
    ELSE emailRegex(trimmedEmail)

\* isValidPhoneNumber with the upper limit off by one
isValidPhoneNumberUpTo16(phone) ==
    LET digitsOnly == removeAll(trim(phone), PhoneFormatting) IN
    /\ Len(trim(phone)) > 0
    /\ Len(digitsOnly) >= 10
    /\ Len(digitsOnly) <= 16
    /\ \A k \in 1..Len(digitsOnly) : digitsOnly[k] \in Digit

isValidPhoneNumber(phone) ==
    IF Len(trim(phone)) = 0 THEN FALSE
    ELSE
    LET trimmedPhone == trim(phone)
        digitsOnly == removeAll(trimmedPhone, PhoneFormatting)
    IN
    IF ~(Len(digitsOnly) >= 1 /\ \A k \in 1..Len(digitsOnly) : digitsOnly[k] \in Digit)
    THEN FALSE
    ELSE IF Len(digitsOnly) < 10 \/ Len(digitsOnly) > 15 THEN FALSE
    ELSE TRUE

(***************************************************************************)
(* validateAndCleanRow                                                     *)
(***************************************************************************)

\* the email step: normalise the e-mail field and write it back
emailStep(cleanedRow, emailIdx) ==
    IF emailIdx >= 0 /\ emailIdx < Len(cleanedRow)
    THEN [cleanedRow EXCEPT ![emailIdx + 1] = autoCorrectEmailDomain(@)]
    ELSE cleanedRow

\* the email step rejects the row
emailRejects(cleanedRow, emailIdx) ==
    /\ emailIdx >= 0 /\ emailIdx < Len(cleanedRow)
    /\ ~isValidEmail(cleanedRow[emailIdx + 1])

\* phoneStep without the test that the trimmed phone is non-empty
phoneStepClearsBlank(cleanedRow, phoneIdx) ==
    IF phoneIdx >= 0 /\ phoneIdx < Len(cleanedRow)
    THEN LET phone == cleanedRow[phoneIdx + 1] IN
         IF Len(phone) > 0 /\ ~isValidPhoneNumber(phone)
         THEN [cleanedRow EXCEPT ![phoneIdx + 1] = <<>>]
         ELSE cleanedRow
    ELSE cleanedRow

\* the phone step: clear a phone field that exists and is invalid
phoneStep(cleanedRow, phoneIdx) ==
    IF phoneIdx >= 0 /\ phoneIdx < Len(cleanedRow)
    THEN LET phone == cleanedRow[phoneIdx + 1] IN
         IF Len(phone) > 0 /\ Len(trim(phone)) > 0 /\ ~isValidPhoneNumber(phone)
         THEN [cleanedRow EXCEPT ![phoneIdx + 1] = <<>>]
         ELSE cleanedRow
    ELSE cleanedRow

\* the quote counting loop, from the (one-based) position k on
RECURSIVE quoteCountFrom(_, _)
quoteCountFrom(s, k) ==
    IF k > Len(s) THEN 0
    ELSE IF s[k] = "\""
         THEN IF k < Len(s) /\ s[k + 1] = "\""
              THEN quoteCountFrom(s, k + 2)
              ELSE 1 + quoteCountFrom(s, k + 1)
         ELSE quoteCountFrom(s, k + 1)

\* s.match(/^,.*["]/)
matchLeadingCommaQuote(s) ==
    /\ Len(s) >= 2
    /\ s[1] = ","
    /\ \E q \in 2..Len(s) :
          /\ s[q] = "\""
          /\ \A k \in 2..(q - 1) : s[k] \notin LineTerminator

\* s.match(/["].*,/)
matchQuoteComma(s) ==
    \E q \in 1..Len(s) : \E c \in (q + 1)..Len(s) :
        /\ s[q] = "\""
        /\ s[c] = ","
        /\ \A k \in (q + 1)..(c - 1) : s[k] \notin LineTerminator

\* the malformed-quote sweep rejects the field
fieldMalformed(field) ==
    LET trimmedField == trim(field)
        quoteCount == quoteCountFrom(trimmedField, 1)
    IN  \/ (quoteCount > 0 /\ quoteCount % 2 # 0)
        \/ matchLeadingCommaQuote(trimmedField)
        \/ matchQuoteComma(trimmedField)

\* the sweep over the row
sweepRejects(cleanedRow) ==
    \E k \in 1..Len(cleanedRow) : fieldMalformed(cleanedRow[k])

\* the cleaned row, or NullRow
validateAndCleanRow(row, expectedWidth, emailIdx, phoneIdx) ==
    IF Len(row) # expectedWidth THEN NullRow
    ELSE
    LET cleanedRow == [k \in 1..Len(row) |-> cleanField(row[k])]
        afterEmail == emailStep(cleanedRow, emailIdx)
    IN
    IF emailRejects(afterEmail, emailIdx) THEN NullRow
    ELSE
    LET afterPhone == phoneStep(afterEmail, phoneIdx) IN
    IF sweepRejects(afterPhone) THEN NullRow
    ELSE afterPhone

(***************************************************************************)
(* arrayToCSV                                                              *)
(***************************************************************************)

\* the field of arrayToCSV quoted for ',' and '"' only
csvFieldNoNewline(field) ==
    IF includes(field, <<",">>) \/ includes(field, <<"\"">>)
    THEN <<"\"">> \o doubleQuotes(field) \o <<"\"">>
    ELSE field

\* one field as arrayToCSV emits it
csvField(field) ==
    IF includes(field, <<",">>) \/ includes(field, <<"\"">>) \/ includes(field, <<"\n">>)
    THEN <<"\"">> \o doubleQuotes(field) \o <<"\"">>
    ELSE field

arrayToCSV(rs) ==
    join([r \in 1..Len(rs) |->
            join([k \in 1..Len(rs[r]) |-> csvField(rs[r][k])], <<",">>)],
         <<"\n">>)

(***************************************************************************)
(* parseCSV, one step per character and per end of line                    *)
(***************************************************************************)

\* the state of parseCSV before its loop
BeginParse(text) ==
    /\ lines' = split(text, "\n")
    /\ i' = 0
    /\ j' = 0
    /\ currentRow' = <<>>
    /\ currentField' = <<>>
    /\ inQuotes' = FALSE
    /\ rows' = <<>>

\* currentRow.some(field => field.length > 0)
someNonEmpty(row) == \E k \in 1..Len(row) : Len(row[k]) > 0

\* pushLastField that drops an empty last field
pushLastFieldDropsEmpty(row, field) ==
    IF field # <<>> THEN Append(row, trim(field)) ELSE row

\* "if (currentField || currentRow.length > 0) currentRow.push(currentField.trim())"
pushLastField(row, field) ==
    IF field # <<>> \/ Len(row) > 0 THEN Append(row, trim(field)) ELSE row

\* "if (currentRow.length > 0 && currentRow.some(...)) rows.push(currentRow)"
pushRow(rs, row) ==
    IF Len(row) > 0 /\ someNonEmpty(row) THEN Append(rs, row) ELSE rs

\* the body of the inner loop, for the character line[j]
ScanChar ==
    /\ pc = "scan"
    /\ i < Len(lines)
    /\ j < Len(lines[i + 1])
    /\ LET line == lines[i + 1]
           char == line[j + 1]
           nextChar == IF j + 1 < Len(line) THEN line[j + 2] ELSE "<undefined>"
       IN  IF char = "\""
           THEN IF inQuotes /\ nextChar = "\""
                THEN /\ currentField' = Append(currentField, "\"")
                     /\ j' = j + 2
                     /\ UNCHANGED <<inQuotes, currentRow>>
                ELSE /\ inQuotes' = ~inQuotes
                     /\ j' = j + 1
                     /\ UNCHANGED <<currentField, currentRow>>
           ELSE IF char = "," /\ ~inQuotes
                THEN /\ currentRow' = Append(currentRow, trim(currentField))
                     /\ currentField' = <<>>
                     /\ j' = j + 1
                     /\ UNCHANGED inQuotes
                ELSE /\ currentField' = Append(currentField, char)
                     /\ j' = j + 1
                     /\ UNCHANGED <<inQuotes, currentRow>>
    /\ UNCHANGED <<lines, i, rows>>
    /\ UNCHANGED <<entry, pc, csvText, expectedColumns, outcome, error>>
    /\ UNCHANGED pipeVars
    /\ UNCHANGED callVars

\* EndOfLine that closes the row whatever the quote state
EndOfLineClosesAlways ==
    /\ pc = "scan"
    /\ i < Len(lines)
    /\ j >= Len(lines[i + 1])
    /\ rows' = pushRow(rows, Append(currentRow, trim(currentField)))
    /\ currentRow' = <<>>
    /\ currentField' = <<>>
    /\ i' = i + 1
    /\ j' = 0
    /\ UNCHANGED <<lines, inQuotes>>
    /\ UNCHANGED <<entry, pc, csvText, expectedColumns, outcome, error>>
    /\ UNCHANGED pipeVars
    /\ UNCHANGED callVars

\* the end of the physical line lines[i]
EndOfLine ==
    /\ pc = "scan"
    /\ i < Len(lines)
    /\ j >= Len(lines[i + 1])
    /\ IF ~inQuotes
       THEN /\ rows' = pushRow(rows, pushLastField(currentRow, currentField))
            /\ currentRow' = <<>>
            /\ currentField' = <<>>
       ELSE /\ currentField' = Append(currentField, "\n")
            /\ UNCHANGED <<rows, currentRow>>
    /\ i' = i + 1
    /\ j' = 0
    /\ UNCHANGED <<lines, inQuotes>>
    /\ UNCHANGED <<entry, pc, csvText, expectedColumns, outcome, error>>
    /\ UNCHANGED pipeVars
    /\ UNCHANGED callVars

\* after the last line: flush what is pending and return rows
Flush ==
    /\ pc = "scan"
    /\ i >= Len(lines)
    /\ IF currentField # <<>> \/ Len(currentRow) > 0
       THEN /\ currentRow' = Append(currentRow, trim(currentField))
            /\ rows' = pushRow(rows, Append(currentRow, trim(currentField)))
       ELSE UNCHANGED <<currentRow, rows>>
    /\ pc' = IF entry = "validateAndCleanCSV" THEN "headers" ELSE "parsed"
    /\ UNCHANGED <<lines, i, j, currentField, inQuotes>>
    /\ UNCHANGED <<entry, csvText, expectedColumns, outcome, error>>
    /\ UNCHANGED pipeVars
    /\ UNCHANGED callVars

\* arrayToCSV applied to the rows parseCSV returned
Serialize ==
    /\ pc = "parsed"
    /\ entry = "parseCSV"
    /\ res' = arrayToCSV(rows)
    /\ outcome' = "result"
    /\ pc' = "done"
    /\ UNCHANGED <<entry, csvText, expectedColumns, error, arg, res2>>
    /\ UNCHANGED parseVars
    /\ UNCHANGED pipeVars

(***************************************************************************)
(* validateAndCleanCSV                                                     *)
(***************************************************************************)

NoError == [name |-> "none"]

\* nonBlankLines without the trim
nonBlankLinesNoTrim(text) == SelectSeq(split(text, "\n"), LAMBDA l : Len(l) > 0)

\* csvText.split('\n').filter(line => line.trim().length > 0)
nonBlankLines(text) == SelectSeq(split(text, "\n"), LAMBDA l : Len(trim(l)) > 0)

\* the early return on blank input, else the call of parseCSV
Start ==
    /\ pc = "start"
    /\ IF Len(nonBlankLines(csvText)) = 0
       THEN /\ validRows' = <<>>
            /\ invalidRowCount' = 0
            /\ outcome' = "result"
            /\ pc' = "done"
            /\ UNCHANGED parseVars
       ELSE /\ BeginParse(csvText)
            /\ pc' = "scan"
            /\ UNCHANGED <<validRows, invalidRowCount, outcome>>
    /\ UNCHANGED <<entry, csvText, expectedColumns, error>>
    /\ UNCHANGED <<emailColumnIndex, phoneColumnIndex, rowIndex>>
    /\ UNCHANGED callVars

\* normalizeNames without the lower-casing
normalizeNamesCaseSensitive(names) == [k \in 1..Len(names) |-> trim(names[k])]

\* normalizedHeaders / normalizedExpected
normalizeNames(names) == [k \in 1..Len(names) |-> trim(toLowerCase(names[k]))]

\* zero-based index of the first header name that differs, -1 if none
firstNameMismatch(headers, expected) ==
    LET nh == normalizeNames(headers)
        ne == normalizeNames(expected)
        bad == {k \in 1..Len(ne) : nh[k] # ne[k]}
    IN  IF bad = {} THEN -1
        ELSE (CHOOSE k \in bad : \A m \in bad : k <= m) - 1

\* the header checks: headers = rows[0], its length, its names
CheckHeaders ==
    /\ pc = "headers"
    /\ IF Len(rows) = 0
       THEN \* headers is undefined: reading headers.length throws
            /\ outcome' = "throw"
            /\ error' = [name |-> "TypeError"]
            /\ pc' = "done"
       ELSE LET headers == rows[1] IN
            IF Len(headers) # Len(expectedColumns)
            THEN /\ outcome' = "throw"
                 /\ error' = [name |-> "Error", kind |-> "count",
                              expected |-> Len(expectedColumns),
                              actual |-> Len(headers)]
                 /\ pc' = "done"
            ELSE LET m == firstNameMismatch(headers, expectedColumns) IN
                 IF m >= 0
                 THEN /\ outcome' = "throw"
                      /\ error' = [name |-> "Error", kind |-> "name",
                                   position |-> m + 1,
                                   expected |-> expectedColumns[m + 1],
                                   actual |-> headers[m + 1]]
                      /\ pc' = "done"
                 ELSE /\ pc' = "columns"
                      /\ UNCHANGED <<outcome, error>>
    /\ UNCHANGED <<entry, csvText, expectedColumns>>
    /\ UNCHANGED parseVars
    /\ UNCHANGED pipeVars
    /\ UNCHANGED callVars

Email == <<"e", "m", "a", "i", "l">>
Phone == <<"p", "h", "o", "n", "e">>
Mobile == <<"m", "o", "b", "i", "l", "e">>
Contact == <<"c", "o", "n", "t", "a", "c", "t">>

\* zero-based index of the first column whose lower-cased name contains one of
\* the words, -1 if none
findColumn(columns, words) ==
    LET hits == {k \in 1..Len(columns) :
                    \E w \in words : includes(toLowerCase(columns[k]), w)}
    IN  IF hits = {} THEN -1
        ELSE (CHOOSE k \in hits : \A m \in hits : k <= m) - 1

\* the column roles, the cleaned header and the start of the row loop
FindColumns ==
    /\ pc = "columns"
    /\ emailColumnIndex' = findColumn(expectedColumns, {Email})
    /\ phoneColumnIndex' = findColumn(expectedColumns, {Phone, Mobile, Contact})
    /\ validRows' = << [k \in 1..Len(rows[1]) |-> cleanField(rows[1][k])] >>
    /\ invalidRowCount' = 0
    /\ rowIndex' = 1
    /\ pc' = "rows"
    /\ UNCHANGED <<entry, csvText, expectedColumns, outcome, error>>
    /\ UNCHANGED parseVars
    /\ UNCHANGED callVars

\* ProcessRow, pushing the tokenized row instead of the cleaned one
ProcessRowKeepsRaw ==
    /\ pc = "rows"
    /\ rowIndex < Len(rows)
    /\ LET cleanedRow == validateAndCleanRow(rows[rowIndex + 1], Len(expectedColumns),
                                             emailColumnIndex, phoneColumnIndex)
       IN  IF cleanedRow # NullRow
           THEN /\ validRows' = Append(validRows, rows[rowIndex + 1])
                /\ UNCHANGED invalidRowCount
           ELSE /\ invalidRowCount' = invalidRowCount + 1
                /\ UNCHANGED validRows
    /\ rowIndex' = rowIndex + 1
    /\ UNCHANGED <<entry, pc, csvText, expectedColumns, outcome, error>>
    /\ UNCHANGED <<emailColumnIndex, phoneColumnIndex>>
    /\ UNCHANGED parseVars
    /\ UNCHANGED callVars

\* one iteration of the loop over the data rows
ProcessRow ==
    /\ pc = "rows"
    /\ rowIndex < Len(rows)
    /\ LET cleanedRow == validateAndCleanRow(rows[rowIndex + 1], Len(expectedColumns),
                                             emailColumnIndex, phoneColumnIndex)
       IN  IF cleanedRow # NullRow
           THEN /\ validRows' = Append(validRows, cleanedRow)
                /\ UNCHANGED invalidRowCount
           ELSE /\ invalidRowCount' = invalidRowCount + 1
                /\ UNCHANGED validRows
    /\ rowIndex' = rowIndex + 1
    /\ UNCHANGED <<entry, pc, csvText, expectedColumns, outcome, error>>
    /\ UNCHANGED <<emailColumnIndex, phoneColumnIndex>>
    /\ UNCHANGED parseVars
    /\ UNCHANGED callVars

\* return { validRows, invalidRowCount }
Return ==
    /\ pc = "rows"
    /\ rowIndex >= Len(rows)
    /\ outcome' = "result"
    /\ pc' = "done"
    /\ UNCHANGED <<entry, csvText, expectedColumns, error>>
    /\ UNCHANGED parseVars
    /\ UNCHANGED pipeVars
    /\ UNCHANGED callVars

(***************************************************************************)
(* Direct calls of the pure functions                                      *)
(***************************************************************************)

CallCleanField ==
    /\ entry = "cleanField"
    /\ pc = "call"
    /\ res' = cleanField(arg)
    /\ pc' = "ret"
    /\ UNCHANGED <<entry, csvText, expectedColumns, outcome, error, arg, res2>>
    /\ UNCHANGED parseVars
    /\ UNCHANGED pipeVars

\* cleanField applied to its own result
CleanAgain ==
    /\ entry = "cleanField"
    /\ pc = "ret"
    /\ res2' = cleanField(res)
    /\ pc' = "done"
    /\ UNCHANGED <<entry, csvText, expectedColumns, outcome, error, arg, res>>
    /\ UNCHANGED parseVars
    /\ UNCHANGED pipeVars

CallIsValidEmail ==
    /\ entry = "isValidEmail"
    /\ pc = "call"
    /\ res' = isValidEmail(arg)
    /\ pc' = "done"
    /\ UNCHANGED <<entry, csvText, expectedColumns, outcome, error, arg, res2>>
    /\ UNCHANGED parseVars
    /\ UNCHANGED pipeVars

CallIsValidPhoneNumber ==
    /\ entry = "isValidPhoneNumber"
    /\ pc = "call"
    /\ res' = isValidPhoneNumber(arg)
    /\ pc' = "done"
    /\ UNCHANGED <<entry, csvText, expectedColumns, outcome, error, arg, res2>>
    /\ UNCHANGED parseVars
    /\ UNCHANGED pipeVars

CallValidateAndCleanRow ==
    /\ entry = "validateAndCleanRow"
    /\ pc = "call"
    /\ res' = validateAndCleanRow(arg.row, arg.expectedColumns,
                                  arg.emailColumnIndex, arg.phoneColumnIndex)
    /\ pc' = "done"
    /\ UNCHANGED <<entry, csvText, expectedColumns, outcome, error, arg, res2>>
    /\ UNCHANGED parseVars
    /\ UNCHANGED pipeVars

CallAutoCorrectEmailDomain ==
    /\ entry = "autoCorrectEmailDomain"
    /\ pc = "call"
    /\ res' = autoCorrectEmailDomain(arg)
    /\ pc' = "done"
    /\ UNCHANGED <<entry, csvText, expectedColumns, outcome, error, arg, res2>>
    /\ UNCHANGED parseVars
    /\ UNCHANGED pipeVars

CallArrayToCSV ==
    /\ entry = "arrayToCSV"
    /\ pc = "call"
    /\ res' = arrayToCSV(arg)
    /\ pc' = "done"
    /\ UNCHANGED <<entry, csvText, expectedColumns, outcome, error, arg, res2>>
    /\ UNCHANGED parseVars
    /\ UNCHANGED pipeVars

(***************************************************************************)
(* Inputs                                                                  *)
(***************************************************************************)

\* all strings over the alphabet of length at most n
Strings(alphabet, n) == UNION {[1..k -> alphabet] : k \in 0..n}

\* all sequences of members of set of length at most n
SeqsUpTo(set, n) == UNION {[1..k -> set] : k \in 0..n}

IdleParse ==
    /\ lines = <<>>
    /\ i = 0
    /\ j = 0
    /\ currentRow = <<>>
    /\ currentField = <<>>
    /\ inQuotes = FALSE
    /\ rows = <<>>

IdlePipe ==
    /\ emailColumnIndex = -1
    /\ phoneColumnIndex = -1
    /\ validRows = <<>>
    /\ invalidRowCount = 0
    /\ rowIndex = 0

IdleCall ==
    /\ arg = NULL
    /\ res = NULL
    /\ res2 = NULL

\* ---- validateAndCleanCSV ----

MaxDataRows == 2

ColsNameEmail ==
    << <<"n">>,
       <<"e", "m", "a", "i", "l">> >>
ColsNameEmailPhone ==
    << <<"n">>,
       <<"e", "m", "a", "i", "l">>,
       <<"p", "h", "o", "n", "e">> >>
ColsCommaEmail ==
    << <<"n", ",">>,
       <<"e", "m", "a", "i", "l">> >>
ColsSpecExample ==
    << <<"n", "a", "m", "e">>,
       <<"e", "m", "a", "i", "l">> >>
ColsContactEmail ==
    << <<"n">>,
       <<"c", "o", "n", "t", "a", "c", "t", "_", "e", "m", "a", "i", "l">> >>

HdrNameEmail == <<"n", ",", "e", "m", "a", "i", "l">>
HdrCaseSpace == <<"N", ",", " ", "E", "m", "a", "i", "l">>
HdrSecondWrong == <<"n", ",", "m", "a", "i", "l">>
HdrBothWrong == <<"x", ",", "m", "a", "i", "l">>
HdrOneField == <<"n">>
HdrNameEmailPhone == <<"n", ",", "e", "m", "a", "i", "l", ",", "p", "h", "o", "n", "e">>
HdrQuotedComma == <<"\"", "n", ",", "\"", ",", "e", "m", "a", "i", "l">>
HdrContactEmail == <<"n", ",", "c", "o", "n", "t", "a", "c", "t", "_", "e", "m", "a", "i", "l">>

\* the (expected columns, header line) pairs
HeaderCases ==
    { <<ColsNameEmail, HdrNameEmail>>, <<ColsNameEmail, HdrCaseSpace>>,
      <<ColsNameEmail, HdrSecondWrong>>, <<ColsNameEmail, HdrBothWrong>>,
      <<ColsNameEmail, HdrOneField>>, <<ColsNameEmailPhone, HdrNameEmailPhone>>,
      <<ColsNameEmailPhone, HdrNameEmail>>, <<ColsCommaEmail, HdrQuotedComma>>,
      <<ColsContactEmail, HdrContactEmail>> }

LineTypo == <<"A", "d", "a", ",", "a", "d", "a", "@", "x", ".", "c", "o", "n">>
LineBadEmail == <<"B", "o", "b", ",", "b", "a", "d">>
LineShortPhone ==
    <<"B", "o", "b", ",", "b", "o", "b", "@", "x", ".", "c", "o", "m", ",", "1", "2",
      "3">>
LineGoodPhone ==
    <<"A", "l", ",", "a", "l", "@", "x", ".", "i", "o", ",", "1", "2", "3", "4", "5",
      "6", "7", "8", "9", "0">>
LineQuotedNewline == <<"\"", "a", "\n", "b", "\"", ",", "c", "@", "d", ".", "c", "o">>
LineOpenQuote == <<"x", "\"", "y", ",", "z", "@", "w", ".", "c", "o">>

DataLines ==
    {LineTypo, LineBadEmail, LineShortPhone, LineGoodPhone, LineQuotedNewline,
     LineOpenQuote}

\* texts all of whose lines are blank
BlankTexts ==
    { <<>>,
      <<" ">>,
      <<"\n">>,
      <<" ", "\n", "\t", "\n">> }
\* texts that are not blank and tokenize to no row
RowlessTexts ==
    { <<",">>,
      <<"\"", "\"">>,
      <<",", ",", "\n", " ", ",">> }
SpecExampleText ==
    <<"n", "a", "m", "e", ",", "e", "m", "a", "i", "l", "\n", "A", "d", "a", ",", "a",
      "d", "a", "@", "x", ".", "c", "o", "n", "\n", "B", "o", "b", ",", "n", "o", "t",
      "-", "a", "n", "-", "e", "m", "a", "i", "l", "\n">>

PipelineInputs ==
    {<<hc[1], join(<<hc[2]>> \o d, <<"\n">>)>> :
        hc \in HeaderCases, d \in SeqsUpTo(DataLines, MaxDataRows)}
    \cup {<<ColsNameEmail, t>> : t \in BlankTexts \cup RowlessTexts}
    \cup {<<ColsSpecExample, SpecExampleText>>}

Init ==
    /\ entry = "validateAndCleanCSV"
    /\ pc = "start"
    /\ \E in \in PipelineInputs :
          /\ expectedColumns = in[1]
          /\ csvText = in[2]
    /\ outcome = "none"
    /\ error = NoError
    /\ IdleParse
    /\ IdlePipe
    /\ IdleCall

Next ==
    \/ Start
    \/ ScanChar
    \/ EndOfLine
    \/ Flush
    \/ CheckHeaders
    \/ FindColumns
    \/ ProcessRow
    \/ Return

Spec == Init /\ [][Next]_vars

\* ---- parseCSV, then arrayToCSV ----

MaxTextLen == 5

ParseAlphabet == {"a", ",", "\"", "\n", " "}

\* the two physical lines "line1 / line2",ok
TextTwoLines ==
    <<"\"", "l", "i", "n", "e", "1", "\n", "l", "i", "n", "e", "2", "\"", ",", "o",
      "k">>
TextClean == <<"a", "b", ",", "c", " ", "d", ",", "\n", ",", "e", "\n", "f">>

ParseTexts == Strings(ParseAlphabet, MaxTextLen) \cup {TextTwoLines, TextClean}

InitParse ==
    /\ entry = "parseCSV"
    /\ pc = "scan"
    /\ csvText \in ParseTexts
    /\ expectedColumns = <<>>
    /\ lines = split(csvText, "\n")
    /\ i = 0
    /\ j = 0
    /\ currentRow = <<>>
    /\ currentField = <<>>
    /\ inQuotes = FALSE
    /\ rows = <<>>
    /\ outcome = "none"
    /\ error = NoError
    /\ IdlePipe
    /\ IdleCall

NextParse ==
    \/ ScanChar
    \/ EndOfLine
    \/ Flush
    \/ Serialize

SpecParse == InitParse /\ [][NextParse]_vars

\* ---- cleanField ----

MaxFieldLen == 4

FieldAlphabet == {"a", ",", "\"", " "}

InitClean ==
    /\ entry = "cleanField"
    /\ pc = "call"
    /\ arg \in Strings(FieldAlphabet, MaxFieldLen)
    /\ res = NULL
    /\ res2 = NULL
    /\ csvText = <<>>
    /\ expectedColumns = <<>>
    /\ outcome = "none"
    /\ error = NoError
    /\ IdleParse
    /\ IdlePipe

NextClean ==
    \/ CallCleanField
    \/ CleanAgain

SpecClean == InitClean /\ [][NextClean]_vars

\* ---- isValidEmail ----

MaxEmailLen == 6

EmailAlphabet == {"a", "@", ".", " "}

InitEmail ==
    /\ entry = "isValidEmail"
    /\ pc = "call"
    /\ arg \in Strings(EmailAlphabet, MaxEmailLen)
    /\ res = NULL
    /\ res2 = NULL
    /\ csvText = <<>>
    /\ expectedColumns = <<>>
    /\ outcome = "none"
    /\ error = NoError
    /\ IdleParse
    /\ IdlePipe

NextEmail == CallIsValidEmail

SpecEmail == InitEmail /\ [][NextEmail]_vars

\* ---- isValidPhoneNumber ----

MaxDigitRun == 9

DigitSeq == <<"0", "1", "2", "3", "4", "5", "6", "7", "8", "9">>

\* a run of n digits
digitRun(n) == [k \in 1..n |-> DigitSeq[(k % 10) + 1]]

PhoneSeparators == {" ", "-", "(", ")", "+", ".", "x", "\t"}

PhoneExample ==
    <<"+", "1", " ", "(", "4", "1", "5", ")", " ", "5", "5", "5", "-", "2", "6", "7",
      "1">>
PhoneFiveDigits == <<"1", "2", "3", "4", "5">>

PhoneInputs ==
    {pre \o digitRun(n) \o mid \o digitRun(m) \o post :
        pre \in {<<>>, <<"+">>, <<" ">>},
        n \in 0..MaxDigitRun,
        mid \in Strings(PhoneSeparators, 1),
        m \in 0..MaxDigitRun,
        post \in {<<>>, <<" ">>, <<"x">>}}
    \cup {PhoneExample, PhoneFiveDigits}

InitPhone ==
    /\ entry = "isValidPhoneNumber"
    /\ pc = "call"
    /\ arg \in PhoneInputs
    /\ res = NULL
    /\ res2 = NULL
    /\ csvText = <<>>
    /\ expectedColumns = <<>>
    /\ outcome = "none"
    /\ error = NoError
    /\ IdleParse
    /\ IdlePipe

NextPhone == CallIsValidPhoneNumber

SpecPhone == InitPhone /\ [][NextPhone]_vars

\* ---- validateAndCleanRow ----

NameFields ==
    { <<"B", "o", "b">>,
      <<"\"", "B", ",", "\"">>,
      <<"B", "\"">>,
      <<"a", "\"", "\"", "\n", ",", "b">> }
EmailFields ==
    { <<"b", "o", "b", "@", "x", ".", "c", "o", "m">>,
      <<"b", "o", "b", "@", "x", ".", "c", "o", "n">>,
      <<"b", "a", "d">>,
      <<"a", "@", "b", "@", "c", ".", "c", "o", "n">>,
      <<"a", "@", "b", ".", "c", "o", "n", "@", "c">> }
PhoneFields ==
    { <<"1", "2", "3">>,
      <<>>,
      <<"\"", " ", "\"">>,
      <<"1", "2", "3", "4", "5", "6", "7", "8", "9", "0">>,
      <<"+", "1", " ", "(", "4", "1", "5", ")", " ", "5", "5", "5", "-", "2", "6", "7", "1">>,
      <<"\"", "1", ",", "\"">>,
      <<"1", "\"", "2">>,
      <<"1", "2", "3", "4", "5", " ", "x">> }

RowInputs ==
    {[row |-> r, expectedColumns |-> w, emailColumnIndex |-> e, phoneColumnIndex |-> p] :
        r \in {<<n, m, q>> : n \in NameFields, m \in EmailFields, q \in PhoneFields},
        w \in {2, 3}, e \in {-1, 1}, p \in {1, 2}}

InitRow ==
    /\ entry = "validateAndCleanRow"
    /\ pc = "call"
    /\ arg \in RowInputs
    /\ res = NULL
    /\ res2 = NULL
    /\ csvText = <<>>
    /\ expectedColumns = <<>>
    /\ outcome = "none"
    /\ error = NoError
    /\ IdleParse
    /\ IdlePipe

NextRow == CallValidateAndCleanRow

SpecRow == InitRow /\ [][NextRow]_vars

\* ---- autoCorrectEmailDomain ----

AutoLocalParts ==
    { <<"a">>,
      <<"A", ".", "b">> }
AutoBaseDomains ==
    { <<"b">>,
      <<"b", ".", "c">>,
      <<>> }
\* the suffixes: the allow-list, the keys of the typo table, and others
AutoSuffixes ==
    { <<".", "c", "o">>,
      <<".", "i", "o">>,
      <<".", "o", "r", "g">>,
      <<".", "n", "e", "t">>,
      <<".", "e", "d", "u">>,
      <<".", "g", "o", "v">>,
      <<".", "m", "i", "l">>,
      <<".", "i", "n", "t">>,
      <<".", "u", "k">>,
      <<".", "u", "s">>,
      <<".", "c", "a">>,
      <<".", "a", "u">>,
      <<".", "i", "n">>,
      <<".", "d", "e">>,
      <<".", "f", "r">>,
      <<".", "j", "p">>,
      <<".", "c", "n">>,
      <<".", "c", "o", "n">>,
      <<".", "c", "m", "o">>,
      <<".", "c", "o", "m", "n">>,
      <<".", "c", "o", "m", "m">>,
      <<".", "c", "o", "o", "m">>,
      <<".", "c", "o", "m", ",">>,
      <<".", "c", "o", "n", ",">>,
      <<".", "c", "m", "o", ",">>,
      <<".", "o", "r">>,
      <<".", "o", "g", "r">>,
      <<".", "n", "e", "t", ",">>,
      <<".", "n", "e">>,
      <<".", "c", "o", "m", "n", ",">>,
      <<".", "o", "r", ",">>,
      <<".", "o", "g", "r", ",">>,
      <<".", "n", "e", ",">>,
      <<".", "c", "o", "m">>,
      <<".", "x", "y", "z">>,
      <<".", "C", "O", "N">>,
      <<".", "I", "o">>,
      <<".">>,
      <<".", "c", "o", ",">>,
      <<".", "C", "O", "M", ",">>,
      <<".", "c", ",">>,
      <<",">> }
\* no '@', an empty domain, a domain without '.', several '@'
AutoOtherShapes ==
    { <<>>,
      <<"a", "b", "c">>,
      <<"a", ".", "c", "o", "n">>,
      <<"a", "@">>,
      <<"a", "@", "b">>,
      <<" ", "a", "@", "b", " ">>,
      <<"a", "@", "b", ".", "c", "o", "n", "@", "c">>,
      <<"a", "@", "b", "@", "c", ".", "c", "o", "n">>,
      <<"@", "b", ".", "c", "o", "n">> }

AutoInputs ==
    {pre \o l \o <<"@">> \o b \o x \o post :
        pre \in {<<>>, <<" ">>}, l \in AutoLocalParts, b \in AutoBaseDomains,
        x \in AutoSuffixes, post \in {<<>>, <<" ">>}}
    \cup AutoOtherShapes

InitAuto ==
    /\ entry = "autoCorrectEmailDomain"
    /\ pc = "call"
    /\ arg \in AutoInputs
    /\ res = NULL
    /\ res2 = NULL
    /\ csvText = <<>>
    /\ expectedColumns = <<>>
    /\ outcome = "none"
    /\ error = NoError
    /\ IdleParse
    /\ IdlePipe

NextAuto == CallAutoCorrectEmailDomain

SpecAuto == InitAuto /\ [][NextAuto]_vars

\* ---- arrayToCSV ----

MaxCsvFieldLen == 2

CsvAlphabet == {"a", ",", "\"", "\n", "\r"}

CsvFields == Strings(CsvAlphabet, MaxCsvFieldLen)

CsvRowPlain == <<<<"a">>, <<"b">>>>

CsvRowQuoted == <<<<"a", ",", "b">>, <<"c", "\"", "d">>>>

CsvRowNewline == <<<<"x", "\n", "y">>>>

CsvRowEmptyField == <<<<>>>>

CsvExampleRows == {<<>>, CsvRowEmptyField, CsvRowPlain, CsvRowQuoted, CsvRowNewline}

\* one row of one or two fields, and up to three of the example rows
CsvInputs ==
    {<<<<f>>>> : f \in CsvFields}
    \cup {<<<<f, g>>>> : f \in CsvFields, g \in CsvFields}
    \cup SeqsUpTo(CsvExampleRows, 3)

InitCsv ==
    /\ entry = "arrayToCSV"
    /\ pc = "call"
    /\ arg \in CsvInputs
    /\ res = NULL
    /\ res2 = NULL
    /\ csvText = <<>>
    /\ expectedColumns = <<>>
    /\ outcome = "none"
    /\ error = NoError
    /\ IdleParse
    /\ IdlePipe

NextCsv == CallArrayToCSV

SpecCsv == InitCsv /\ [][NextCsv]_vars

(***************************************************************************)
(* Properties of validateAndCleanCSV (specification Spec)                  *)
(***************************************************************************)

\* validateAndCleanCSV has ended
Ended == entry = "validateAndCleanCSV" /\ pc = "done"

\* every physical line of the text is blank
Blank(text) == \A k \in 1..Len(split(text, "\n")) : trim(split(text, "\n")[k]) = <<>>

\* the cleaned results of the rows of rs that validateAndCleanRow accepts, in order
RECURSIVE acceptedOf(_, _, _, _)
acceptedOf(rs, width, emailIdx, phoneIdx) ==
    IF rs = <<>> THEN <<>>
    ELSE LET c == validateAndCleanRow(Head(rs), width, emailIdx, phoneIdx) IN
         (IF c = NullRow THEN <<>> ELSE <<c>>)
            \o acceptedOf(Tail(rs), width, emailIdx, phoneIdx)

\* the number of rows of rs that validateAndCleanRow rejects
rejectedOf(rs, width, emailIdx, phoneIdx) ==
    Cardinality({k \in 1..Len(rs) :
                    validateAndCleanRow(rs[k], width, emailIdx, phoneIdx) = NullRow})

\* C1: after a successful run on a text that is not blank, validRows[0] is the
\* tokenized header row with cleanField applied to each field, the rest of
\* validRows is, in input order, the cleaned result of every tokenized data row
\* that validateAndCleanRow accepts, invalidRowCount is the number of tokenized
\* data rows it rejects, and (validRows.length - 1) + invalidRowCount is the
\* number of tokenized data rows.
C1_ResultIsHeaderAndAcceptedRows ==
    (Ended /\ outcome = "result" /\ ~Blank(csvText)) =>
        /\ Len(rows) >= 1
        /\ Len(validRows) >= 1
        /\ validRows[1] = [k \in 1..Len(rows[1]) |-> cleanField(rows[1][k])]
        /\ Tail(validRows) = acceptedOf(Tail(rows), Len(expectedColumns),
                                        emailColumnIndex, phoneColumnIndex)
        /\ invalidRowCount = rejectedOf(Tail(rows), Len(expectedColumns),
                                        emailColumnIndex, phoneColumnIndex)
        /\ (Len(validRows) - 1) + invalidRowCount = Len(rows) - 1

\* C1 witness: a run that returned a header changed by cleanField, an accepted
\* row changed by the cleaning and a rejected row
C1_Witness ==
    /\ Ended
    /\ outcome = "result"
    /\ ~Blank(csvText)
    /\ validRows[1] # rows[1]
    /\ Len(validRows) = 2
    /\ \E k \in 2..Len(rows) :
          /\ validRows[2] = validateAndCleanRow(rows[k], Len(expectedColumns),
                                                emailColumnIndex, phoneColumnIndex)
          /\ validRows[2] # rows[k]
    /\ invalidRowCount = 1

\* position k (one-based) of the header differs from the expected name after
\* lower-casing and trimming
NameDiffers(k) == trim(toLowerCase(rows[1][k])) # trim(toLowerCase(expectedColumns[k]))

\* C2: when the tokenizer produced a header row, validateAndCleanCSV throws the
\* count error, carrying the expected and the actual count, if the header's field
\* count differs from expectedColumns.length; throws the name error, carrying the
\* lowest mismatching position and the expected and actual names there, if the
\* counts agree and some name differs case-insensitively; and throws nothing if
\* the header matches in count and in every position.  A throw returns no result.
C2_HeaderErrors ==
    (Ended /\ Len(rows) >= 1) =>
        IF Len(rows[1]) # Len(expectedColumns)
        THEN /\ outcome = "throw"
             /\ error = [name |-> "Error", kind |-> "count",
                         expected |-> Len(expectedColumns), actual |-> Len(rows[1])]
             /\ validRows = <<>>
        ELSE IF \E k \in 1..Len(expectedColumns) : NameDiffers(k)
        THEN /\ outcome = "throw"
             /\ error.name = "Error"
             /\ error.kind = "name"
             /\ NameDiffers(error.position)
             /\ \A k \in 1..(error.position - 1) : ~NameDiffers(k)
             /\ error.expected = expectedColumns[error.position]
             /\ error.actual = rows[1][error.position]
             /\ validRows = <<>>
        ELSE /\ outcome = "result"
             /\ error = NoError

\* C2 witness: a header of the right width with two wrong names, reported at the
\* first of them
C2_Witness ==
    /\ Ended
    /\ Len(rows) >= 1
    /\ Len(rows[1]) = Len(expectedColumns)
    /\ Cardinality({k \in 1..Len(expectedColumns) : NameDiffers(k)}) = 2
    /\ outcome = "throw"
    /\ error.position = 1

\* C3 as stated: with expected columns and a blank text, validateAndCleanCSV
\* fails with an error instead of returning a result.
C3_BlankInputThrows ==
    (Ended /\ expectedColumns # <<>> /\ Blank(csvText)) => outcome = "throw"

\* C3 amended: with expected columns and a blank text, validateAndCleanCSV throws
\* nothing and returns the result with no valid rows and invalidRowCount 0.
C3_BlankInputReturnsEmptyResult ==
    (Ended /\ expectedColumns # <<>> /\ Blank(csvText)) =>
        /\ outcome = "result"
        /\ error = NoError
        /\ validRows = <<>>
        /\ invalidRowCount = 0

\* C3 witness: a run on a blank text that is not the empty string has ended
C3_Witness ==
    /\ Ended
    /\ expectedColumns # <<>>
    /\ Blank(csvText)
    /\ Len(csvText) > 1
    /\ outcome = "result"

\* C4: with expected columns, validateAndCleanCSV ends by returning a result or
\* by throwing the count error or the name error, and in no other way.
C4_OnlyStructuralErrors ==
    (Ended /\ expectedColumns # <<>>) =>
        \/ outcome = "result" /\ error = NoError
        \/ outcome = "throw" /\ error.name = "Error" /\ error.kind \in {"count", "name"}

\* the column at position c (counted from 1) is the first whose name contains
\* "email", letter case ignored
IsEmailColumn(c) ==
    /\ includes(toLowerCase(expectedColumns[c]), Email)
    /\ \A m \in 1..(c - 1) : ~includes(toLowerCase(expectedColumns[m]), Email)

\* C13: after a successful run whose expectedColumns has a column with "email"
\* in its name, every data row of validRows holds at the email column a value
\* for which isValidEmail is true, also when the name of that column contains
\* "phone", "mobile" or "contact".
C13_EmailColumnHoldsValidEmail ==
    (Ended /\ outcome = "result") =>
        \A c \in 1..Len(expectedColumns) :
            IsEmailColumn(c) =>
                \A k \in 2..Len(validRows) : isValidEmail(validRows[k][c])

(***************************************************************************)
(* Properties of validateAndCleanRow (specification SpecRow)               *)
(***************************************************************************)

\* validateAndCleanRow was called with a row of the expected width and a phone
\* column index that is present, and has returned
RowReturned ==
    /\ entry = "validateAndCleanRow"
    /\ pc = "done"
    /\ Len(arg.row) = arg.expectedColumns
    /\ arg.phoneColumnIndex >= 0
    /\ arg.phoneColumnIndex < Len(arg.row)

\* the row after cleanField and, when an e-mail column is present, after the
\* normalisation of its e-mail field
cleanedAndNormalised(a) ==
    [k \in 1..Len(a.row) |->
        IF a.emailColumnIndex >= 0 /\ k = a.emailColumnIndex + 1
        THEN autoCorrectEmailDomain(cleanField(a.row[k]))
        ELSE cleanField(a.row[k])]

\* the e-mail check passes: there is no e-mail column, or the normalised e-mail
\* is valid
emailPasses(a) ==
    \/ a.emailColumnIndex < 0
    \/ a.emailColumnIndex >= Len(a.row)
    \/ isValidEmail(cleanedAndNormalised(a)[a.emailColumnIndex + 1])

\* the row the claim expects: the phone field emptied when the predicate
\* clear holds of it, every other field untouched
withPhone(a, clear(_)) ==
    [k \in 1..Len(a.row) |->
        IF k = a.phoneColumnIndex + 1 /\ clear(cleanedAndNormalised(a)[k])
        THEN <<>>
        ELSE cleanedAndNormalised(a)[k]]

\* the phone value is non-empty and fails isValidPhoneNumber
nonEmptyInvalid(phone) == phone # <<>> /\ ~isValidPhoneNumber(phone)

\* the phone value is non-empty after trimming and fails isValidPhoneNumber
nonBlankInvalid(phone) == trim(phone) # <<>> /\ ~isValidPhoneNumber(phone)

\* C5 as stated: the phone field never causes rejection, and the returned row
\* holds the empty string in the phone field when the cleaned phone value is
\* non-empty and fails isValidPhoneNumber, the cleaned value otherwise, every
\* other field being left as it was.
C5_PhoneClearedWhenNonEmptyInvalid ==
    RowReturned =>
        LET expected == withPhone(arg, nonEmptyInvalid) IN
        IF emailPasses(arg) /\ ~sweepRejects(expected)
        THEN res = expected
        ELSE res = NullRow

\* C5 amended: the phone field never causes rejection, and the returned row
\* holds the empty string in the phone field when the cleaned phone value is
\* non-empty after trimming and fails isValidPhoneNumber, the cleaned value
\* otherwise (so a phone of white space only is kept); every other field is left
\* as cleaned, the e-mail field as cleaned and normalised.
C5_PhoneClearedWhenNonBlankInvalid ==
    RowReturned =>
        LET expected == withPhone(arg, nonBlankInvalid) IN
        IF emailPasses(arg) /\ ~sweepRejects(expected)
        THEN res = expected
        ELSE res = NullRow

RowBob == <<"B", "o", "b">>
RowBobEmail == <<"b", "o", "b", "@", "x", ".", "c", "o", "m">>
RowBobPhone == <<"1", "2", "3">>

\* C5 witness: ["Bob","bob@x.com","123"] was accepted as ["Bob","bob@x.com",""]
C5_Witness ==
    /\ RowReturned
    /\ arg.row = <<RowBob, RowBobEmail, RowBobPhone>>
    /\ arg.emailColumnIndex = 1
    /\ arg.phoneColumnIndex = 2
    /\ res = <<RowBob, RowBobEmail, <<>> >>

\* C14: validateAndCleanRow with an e-mail column index present rejects every
\* row whose e-mail field, after cleanField, contains two or more '@': the
\* normalisation never turns such a value into one that passes isValidEmail.
C14_SeveralAtSignsRejected ==
    (/\ RowReturned
     /\ arg.emailColumnIndex >= 0
     /\ arg.emailColumnIndex < Len(arg.row)
     /\ countChar(cleanField(arg.row[arg.emailColumnIndex + 1]), "@") >= 2)
        => res = NullRow

\* the '"' at position k of f is not part of an adjacent pair: the number of
\* '"' directly before it is even and no '"' follows it directly
unpairedQuote(f, k) ==
    /\ f[k] = "\""
    /\ \E p \in 0..(k - 1) :
          /\ (p = 0 \/ f[p] # "\"")
          /\ \A m \in (p + 1)..(k - 1) : f[m] = "\""
          /\ (k - 1 - p) % 2 = 0
    /\ (k = Len(f) \/ f[k + 1] # "\"")

\* the three conditions of the claim on one field
fieldWellFormed(f) ==
    /\ Cardinality({k \in 1..Len(f) : unpairedQuote(f, k)}) % 2 = 0
    /\ ~(/\ Len(f) >= 1
         /\ f[1] = ","
         /\ \E q \in 2..Len(f) : f[q] = "\"")
    /\ ~(\E q \in 1..Len(f) : \E c \in (q + 1)..Len(f) :
            f[q] = "\"" /\ f[c] = ",")

\* C15: every field of a row that validateAndCleanRow returns has an even
\* number of '"' outside adjacent pairs, does not begin with a comma followed
\* later by a '"', and has no '"' followed later (also after a newline) by a
\* ','; and a row of the expected width with a valid e-mail is rejected when one
\* of its cleaned fields (the phone field after it was cleared) violates one of
\* these conditions.
C15_AcceptedFieldsWellFormed ==
    RowReturned =>
        /\ res # NullRow => \A k \in 1..Len(res) : fieldWellFormed(res[k])
        /\ (/\ emailPasses(arg)
            /\ \E k \in 1..Len(arg.row) :
                  ~fieldWellFormed(withPhone(arg, nonBlankInvalid)[k]))
              => res = NullRow

(***************************************************************************)
(* Properties of parseCSV and arrayToCSV (specification SpecParse)         *)
(***************************************************************************)

\* the scan stands at the end of the physical line lines[i]
AtEndOfLine == pc = "scan" /\ i < Len(lines) /\ j >= Len(lines[i + 1])

\* the scan stands behind the last line
AtEndOfInput == pc = "scan" /\ i >= Len(lines)

FieldLine1Line2 == <<"l", "i", "n", "e", "1", "\n", "l", "i", "n", "e", "2">>
FieldOk == <<"o", "k">>

\* C6: a physical line that ends inside quotes closes no field and no row,
\* appends a newline to the field buffer and leaves the quote state set, so the
\* next line continues the same field; a row is emitted only at the end of a
\* line reached outside quotes or at the end of the input; and the two lines
\* "line1 / line2",ok tokenize to the one row [line1 newline line2, ok].
C6_QuoteStateCarriesAcrossLines ==
    [][ /\ (AtEndOfLine /\ inQuotes) =>
              /\ rows' = rows
              /\ currentRow' = currentRow
              /\ currentField' = Append(currentField, "\n")
              /\ inQuotes'
              /\ i' = i + 1
              /\ pc' = "scan"
        /\ (rows' # rows) => ((AtEndOfLine /\ ~inQuotes) \/ AtEndOfInput)
        /\ (csvText = TextTwoLines /\ pc' = "parsed") =>
              rows' = << <<FieldLine1Line2, FieldOk>> >>
      ]_vars

\* C6 witness: the two-line text was tokenized to one row
C6_Witness ==
    /\ entry = "parseCSV"
    /\ pc = "parsed"
    /\ csvText = TextTwoLines
    /\ Len(lines) = 2
    /\ Len(rows) = 1

\* the text is clean: every line has a non-empty field and no field holds a
\* double quote or leading or trailing white space (the lines are the parts
\* between newlines and the fields the parts between commas)
CleanText(text) ==
    \A l \in 1..Len(split(text, "\n")) :
        LET fields == split(split(text, "\n")[l], ",") IN
        /\ someNonEmpty(fields)
        /\ \A k \in 1..Len(fields) :
              /\ ~includes(fields[k], <<"\"">>)
              /\ trim(fields[k]) = fields[k]

\* C7: for a clean text, arrayToCSV(parseCSV(text)) is the text.
C7_RoundTripOnCleanText ==
    (entry = "parseCSV" /\ pc = "done" /\ CleanText(csvText)) => res = csvText

\* C7 witness: a clean text of three rows with empty fields went the round trip
C7_Witness ==
    /\ entry = "parseCSV"
    /\ pc = "done"
    /\ csvText = TextClean
    /\ CleanText(csvText)
    /\ Len(rows) = 3
    /\ res = csvText

(***************************************************************************)
(* Properties of cleanField (specification SpecClean)                      *)
(***************************************************************************)

\* C8: cleanField(cleanField(f)) = cleanField(f) for every field f.
C8_CleanFieldIdempotent ==
    (entry = "cleanField" /\ pc = "done") => res2 = res

(***************************************************************************)
(* Properties of isValidEmail (specification SpecEmail)                    *)
(***************************************************************************)

EmailReturned == entry = "isValidEmail" /\ pc = "done"

\* s holds exactly one '@' and no '.' after it
domainLacksDot(s) ==
    /\ countChar(s, "@") = 1
    /\ \A k \in 1..Len(s) : s[k] = "." => k < firstIndexOf(s, "@") + 1

\* s holds a white space character
hasWhiteSpace(s) == \E k \in 1..Len(s) : s[k] \in WhiteSpace

\* C9 as stated: isValidEmail(s) is false when s holds no or several '@', when
\* its domain part holds no '.', and when s holds white space anywhere, leading
\* and trailing white space included.
C9_InvalidEmailShapes ==
    (EmailReturned
        /\ (countChar(arg, "@") # 1 \/ domainLacksDot(arg) \/ hasWhiteSpace(arg)))
    => res = FALSE

\* C9 amended: isValidEmail(s) is false when s holds no or several '@', when
\* its domain part holds no '.', and when s still holds white space after its
\* leading and trailing white space is trimmed.
C9_InvalidEmailShapesAfterTrim ==
    (EmailReturned
        /\ (countChar(arg, "@") # 1 \/ domainLacksDot(arg) \/ hasWhiteSpace(trim(arg))))
    => res = FALSE

\* C9 witness: a string with one '@', a dotted domain and white space inside
\* was found invalid
C9_Witness ==
    /\ EmailReturned
    /\ arg = <<"a", " ", "@", "a", ".", "a">>
    /\ countChar(arg, "@") = 1
    /\ ~domainLacksDot(arg)
    /\ hasWhiteSpace(trim(arg))
    /\ res = FALSE

(***************************************************************************)
(* Properties of isValidPhoneNumber (specification SpecPhone)              *)
(***************************************************************************)

PhoneReturned == entry = "isValidPhoneNumber" /\ pc = "done"

\* s is non-empty after trimming and, with the characters of strip removed,
\* consists of 10 to 15 digits
phoneShape(s, strip) ==
    LET rest == removeAll(s, strip) IN
    /\ trim(s) # <<>>
    /\ \A k \in 1..Len(rest) : rest[k] \in Digit
    /\ Len(rest) >= 10
    /\ Len(rest) <= 15

\* C10 as stated: isValidPhoneNumber(s) is true exactly when s is non-empty
\* after trimming and, with every space, '-', '(', ')', '+' and '.' removed,
\* consists of 10 to 15 digits.
C10_PhoneValidIffSpacesStripped ==
    PhoneReturned => (res <=> phoneShape(arg, {" ", "-", "(", ")", "+", "."}))

\* C10 amended: isValidPhoneNumber(s) is true exactly when s is non-empty after
\* trimming and, with every white space character (not only the space), '-',
\* '(', ')', '+' and '.' removed, consists of 10 to 15 digits; "+1 (415) 555-2671"
\* is valid, 9 and 16 digits are not.
C10_PhoneValidIffWhiteSpaceStripped ==
    PhoneReturned =>
        /\ res <=> phoneShape(arg, WhiteSpace \cup {"-", "(", ")", "+", "."})
        /\ arg = PhoneExample => res = TRUE
        /\ arg \in {digitRun(9), digitRun(16)} => res = FALSE

\* C10 witness: "+1 (415) 555-2671" was found valid
C10_Witness ==
    /\ PhoneReturned
    /\ arg = PhoneExample
    /\ res = TRUE

(***************************************************************************)
(* Properties of autoCorrectEmailDomain (specification SpecAuto)           *)
(***************************************************************************)

AutoReturned == entry = "autoCorrectEmailDomain" /\ pc = "done"

\* the allow-list of the claim
AllowList ==
    { <<".", "c", "o">>,
      <<".", "i", "o">>,
      <<".", "o", "r", "g">>,
      <<".", "n", "e", "t">>,
      <<".", "e", "d", "u">>,
      <<".", "g", "o", "v">>,
      <<".", "m", "i", "l">>,
      <<".", "i", "n", "t">>,
      <<".", "u", "k">>,
      <<".", "u", "s">>,
      <<".", "c", "a">>,
      <<".", "a", "u">>,
      <<".", "i", "n">>,
      <<".", "d", "e">>,
      <<".", "f", "r">>,
      <<".", "j", "p">>,
      <<".", "c", "n">> }
\* the typo table of the claim: the keys corrected to .com, to .org and to .net
ToDotCom ==
    { <<".", "c", "o", "n">>,
      <<".", "c", "m", "o">>,
      <<".", "c", "o", "m", "n">>,
      <<".", "c", "o", "m", "m">>,
      <<".", "c", "o", "o", "m">>,
      <<".", "c", "o", "m", ",">> }
ToDotOrg ==
    { <<".", "o", "r">>,
      <<".", "o", "g", "r">> }
ToDotNet ==
    { <<".", "n", "e">>,
      <<".", "n", "e", "t", ",">> }

\* the correction of a suffix that is a key of the claim's table
correctionOf(key) ==
    IF key \in ToDotCom THEN <<".", "c", "o", "m">>
    ELSE IF key \in ToDotOrg THEN <<".", "o", "r", "g">>
    ELSE <<".", "n", "e", "t">>

isTypoKey(key) == key \in ToDotCom \cup ToDotOrg \cup ToDotNet

\* what the claim says autoCorrectEmailDomain returns for the string s with at
\* most one '@', where unchanged is the value returned when nothing is corrected
claimedCorrection(s, unchanged) ==
    IF countChar(s, "@") = 0 THEN unchanged
    ELSE
    LET at == firstIndexOf(s, "@") + 1
        localPart == SubSeq(s, 1, at - 1)
        domain == SubSeq(s, at + 1, Len(s))
    IN
    IF domain = <<>> \/ ~includes(domain, <<".">>) THEN unchanged
    ELSE
    LET dot == lastIndexOf(domain, ".") + 1
        suffix == toLowerCase(SubSeq(domain, dot, Len(domain)))
        rest == SubSeq(domain, 1, dot - 1)
    IN
    IF suffix \in AllowList THEN unchanged
    ELSE IF isTypoKey(suffix)
         THEN localPart \o <<"@">> \o rest \o correctionOf(suffix)
    ELSE IF endsWith(suffix, <<",">>) /\ isTypoKey(dropLast(suffix))
         THEN localPart \o <<"@">> \o rest \o correctionOf(dropLast(suffix))
    ELSE unchanged

AutoTypoComma == <<"a", "@", "b", ".", "c", "o", "m", "n", ",">>
AutoTypoCommaFixed == <<"a", "@", "b", ".", "c", "o", "m">>

CsvReturned == entry = "arrayToCSV" /\ pc = "done"

\* the first n characters of f with every '"' written twice
RECURSIVE doubledUpTo(_, _)
doubledUpTo(f, n) ==
    IF n = 0 THEN <<>>
    ELSE doubledUpTo(f, n - 1) \o (IF f[n] = "\"" THEN <<"\"", "\"">> ELSE <<f[n]>>)

\* the field as the claim says it is emitted
claimedField(f) ==
    IF \E k \in 1..Len(f) : f[k] \in {",", "\"", "\n"}
    THEN <<"\"">> \o doubledUpTo(f, Len(f)) \o <<"\"">>
    ELSE f

\* the first n fields of the row, a ',' between two fields
RECURSIVE claimedLineUpTo(_, _)
claimedLineUpTo(row, n) ==
    IF n = 0 THEN <<>>
    ELSE IF n = 1 THEN claimedField(row[1])
    ELSE claimedLineUpTo(row, n - 1) \o <<",">> \o claimedField(row[n])

\* the first n rows, a newline between two rows and none at the end
RECURSIVE claimedTextUpTo(_, _)
claimedTextUpTo(rs, n) ==
    IF n = 0 THEN <<>>
    ELSE IF n = 1 THEN claimedLineUpTo(rs[1], Len(rs[1]))
    ELSE claimedTextUpTo(rs, n - 1) \o <<"\n">> \o claimedLineUpTo(rs[n], Len(rs[n]))

\* C12: arrayToCSV joins the fields of a row with ',' and the rows with a
\* newline, appends no trailing newline, and emits a field wrapped in double
\* quotes with every internal double quote doubled if and only if the field
\* contains a ',', a '"' or a newline; every other field is emitted verbatim.
C12_SerializedText ==
    CsvReturned => res = claimedTextUpTo(arg, Len(arg))

CsvExampleText ==
    <<"\"", "a", ",", "b", "\"", ",", "\"", "c", "\"", "\"", "d", "\"", "\n", "\"",
      "x", "\n", "y", "\"", "\n", "a", ",", "b">>

\* C12 witness: the rows ["a,b", "c\"d"], ["x\ny"], ["a", "b"] were serialized
\* with three quoted fields, two row separators and no trailing newline
C12_Witness ==
    /\ CsvReturned
    /\ arg = <<CsvRowQuoted, CsvRowNewline, CsvRowPlain>>
    /\ res = CsvExampleText

====
